---- MODULE Spec2Model ----
(***************************************************************************)
(* Model of run_chunked_eval.py: the command-line driver that resolves a   *)
(* task class, validates the truncation / long-late-chunking options,      *)
(* loads a model and a tokenizer and runs the MTEB evaluation twice, once  *)
(* with chunked pooling and once with normal pooling.                      *)
(*                                                                         *)
(* main() is modelled statement by statement: pc is the position in main,  *)
(* the other variables are its parameters, its locals, the objects the     *)
(* external libraries hand back (heap), the log of external calls (calls), *)
(* the printed notices (stdout) and the exception leaving main (raised).   *)
(* Every external call may fail; a failure is an exception that main does  *)
(* not catch.                                                              *)
(***************************************************************************)
EXTENDS Integers, Sequences, FiniteSets, TLC

VARIABLES opts, cuda_available, pc, task_cls, long_late_chunking_embed_size,
          model, has_instructions, tokenizer, chunking_args, tasks,
          evaluation, heap, calls, stdout, raised

vars == <<opts, cuda_available, pc, task_cls, long_late_chunking_embed_size,
          model, has_instructions, tokenizer, chunking_args, tasks,
          evaluation, heap, calls, stdout, raised>>

(* ------------------------------ bounds -------------------------------- *)
\* --long-late-chunking-embed-size ranges over -MaxNegative .. MaxEmbedSize,
\* --truncate-max-length over None and 0 .. MaxTruncate
MaxNegative == 1
MaxEmbedSize == 2
MaxTruncate == 1

(* ------------------------- program constants --------------------------- *)
DEFAULT_CHUNK_SIZE == 256
DEFAULT_N_SENTENCES == 5
BATCH_SIZE == 1
DEFAULT_LONG_LATE_CHUNKING_OVERLAP_SIZE == 256

\* Python None, and a value that is present: an optional is <<>> or <<v>>
None == <<>>
Some(v) == <<v>>

\* names bound to task classes by "from chunked_pooling.chunked_eval_tasks import *"
TaskClasses == {"SciFactChunked"}
\* names bound in the module namespace to something that is not a task class
NonTaskGlobals == {"BATCH_SIZE"}
\* the mapping globals() returns: every name bound at module level
ModuleGlobals == TaskClasses \cup NonTaskGlobals
\* names the module does not bind
UnboundNames == {"NoSuchTask"}

TaskNames == ModuleGlobals \cup UnboundNames
ModelNames == {"jinaai/jina-embeddings-v2-small-en", "other-model"}
Strategies == {"fixed", "sentences"}
EvalSplits == {"test", "dev"}
ChunkingModels == {None, Some(""), Some("chunker")}
TruncateLengths == {None} \cup {Some(n) : n \in 0..MaxTruncate}
EmbedSizes == (0 - MaxNegative)..MaxEmbedSize
OverlapSizes == {0, DEFAULT_LONG_LATE_CHUNKING_OVERLAP_SIZE}
ChunkSizes == {DEFAULT_CHUNK_SIZE}
SentenceCounts == {DEFAULT_N_SENTENCES, 2}

\* the parameters click hands to main
Options == [model_name : ModelNames, strategy : Strategies,
            task_name : TaskNames, eval_split : EvalSplits,
            chunking_model : ChunkingModels,
            truncate_max_length : TruncateLengths,
            chunk_size : ChunkSizes, n_sentences : SentenceCounts,
            long_late_chunking_embed_size : EmbedSizes,
            long_late_chunking_overlap_size : OverlapSizes]

(* ------------------------------ messages ------------------------------ *)
UnknownTaskError == "ValueError: Unknown task name"
ConfigError == "AssertionError: Define either long late chunking or truncation to handle documents."
NotCallableError == "TypeError: object is not callable"
DisabledNotice == "Long Late Chunking algorithm will be disabled because truncate max length is defined, hence documents are truncated."
ChunkedFolder == "results-chunked-pooling"
NormalFolder == "results-normal-pooling"

(* --------------------------- pure expressions -------------------------- *)
\* globals()[task_name] succeeds
Resolves(task_name) == task_name \in ModuleGlobals

\* variant: the comparison of the window size inverted
DisableCondition_inverted(trunc, size) == trunc # None /\ size < 0

\* condition of the if on the truncation length and the window size
DisableCondition(trunc, size) == trunc # None /\ size > 0

\* variant: the assertion accepts a window size of 0
ConfigOk_nonneg(trunc, size) == size >= 0 \/ trunc # None

\* variant: the assertion is not evaluated
ConfigOk_skipped(trunc, size) == TRUE

\* the asserted condition
ConfigOk(trunc, size) == size > 0 \/ trunc # None

\* truth value of an optional string: None and '' are false
Truthy(s) == s # None /\ s[1] # ""

\* variant: chunking_model if chunking_model is not None else model_name
EmbeddingModelName_notNone(cm, mn) == IF cm # None THEN cm[1] ELSE mn

\* chunking_model if chunking_model else model_name
EmbeddingModelName(cm, mn) == IF Truthy(cm) THEN cm[1] ELSE mn

ChunkingArgs(cs, ns, st, hi, cm, mn) ==
    [chunk_size |-> cs, n_sentences |-> ns, chunking_strategy |-> st,
     model_has_instructions |-> hi,
     embedding_model_name |-> EmbeddingModelName(cm, mn)]

\* variant: the window size and the overlap size swapped
ChunkedTaskKwargs_swapped(tok, trunc, size, overlap, cargs) ==
    [chunked_pooling_enabled |-> TRUE, tokenizer |-> tok, prune_size |-> None,
     truncate_max_length |-> trunc,
     long_late_chunking_embed_size |-> overlap,
     long_late_chunking_overlap_size |-> size] @@ cargs

\* keyword arguments of the task constructed for the chunked-pooling run
ChunkedTaskKwargs(tok, trunc, size, overlap, cargs) ==
    [chunked_pooling_enabled |-> TRUE, tokenizer |-> tok, prune_size |-> None,
     truncate_max_length |-> trunc,
     long_late_chunking_embed_size |-> size,
     long_late_chunking_overlap_size |-> overlap] @@ cargs

\* variant: the normal-pooling task built without the truncation length
NormalTaskKwargs_untruncated(tok, trunc, cargs) ==
    [chunked_pooling_enabled |-> FALSE, tokenizer |-> tok, prune_size |-> None,
     truncate_max_length |-> None] @@ cargs

\* keyword arguments of the task constructed for the normal-pooling run
NormalTaskKwargs(tok, trunc, cargs) ==
    [chunked_pooling_enabled |-> FALSE, tokenizer |-> tok, prune_size |-> None,
     truncate_max_length |-> trunc] @@ cargs

\* keyword arguments of MTEB(...)
ChunkedEvaluationKwargs(ts, tok, cargs) ==
    [tasks |-> ts, chunked_pooling_enabled |-> TRUE, tokenizer |-> tok,
     prune_size |-> None] @@ cargs

NormalEvaluationKwargs(ts, tok, cargs) ==
    [tasks |-> ts, chunked_pooling_enabled |-> FALSE, tokenizer |-> tok,
     prune_size |-> None] @@ cargs

\* keyword arguments of evaluation.run(model, ...)
ChunkedRunKwargs(split) ==
    [output_folder |-> ChunkedFolder, eval_splits |-> <<split>>,
     overwrite_results |-> TRUE, batch_size |-> BATCH_SIZE,
     encode_kwargs |-> [batch_size |-> BATCH_SIZE]]

\* variant: the normal-pooling run writes to the chunked-pooling folder
NormalRunKwargs_sameFolder(split) ==
    [output_folder |-> ChunkedFolder, eval_splits |-> <<split>>,
     overwrite_results |-> TRUE, batch_size |-> BATCH_SIZE,
     encode_kwargs |-> [batch_size |-> BATCH_SIZE]]

NormalRunKwargs(split) ==
    [output_folder |-> NormalFolder, eval_splits |-> <<split>>,
     overwrite_results |-> TRUE, batch_size |-> BATCH_SIZE,
     encode_kwargs |-> [batch_size |-> BATCH_SIZE]]

\* variant: the normal-pooling run is handed another object than the model
NormalRunModel_other(m) == m + 1

\* the model handed to each run
ChunkedRunModel(m) == m
NormalRunModel(m) == m

(* ------------------------------ helpers -------------------------------- *)
\* an object created by an external library
Obj(cls, mode) == [cls |-> cls, device |-> "cpu", mode |-> mode]
\* one external call: the callee, its positional and keyword arguments
Call(fn, args, kwargs) == [fn |-> fn, args |-> args, kwargs |-> kwargs]
NewId == Len(heap) + 1

\* an exception leaves main: nothing after the raising statement runs
Raise(e) == /\ raised' = Some(e)
            /\ pc' = "raised"

(* ------------------------------- Init ---------------------------------- *)
Init ==
    /\ opts \in Options
    /\ cuda_available \in BOOLEAN
    /\ pc = "resolve_task"
    /\ task_cls = None
    /\ long_late_chunking_embed_size = opts.long_late_chunking_embed_size
    /\ model = None
    /\ has_instructions = None
    /\ tokenizer = None
    /\ chunking_args = None
    /\ tasks = None
    /\ evaluation = None
    /\ heap = <<>>
    /\ calls = <<>>
    /\ stdout = <<>>
    /\ raised = None

(* ------------------------------ actions -------------------------------- *)
\* try: task_cls = globals()[task_name]  except: raise ValueError(...)
ResolveTask ==
    /\ pc = "resolve_task"
    /\ IF Resolves(opts.task_name)
         THEN /\ task_cls' = Some(opts.task_name)
              /\ pc' = "disable_long_late_chunking"
              /\ UNCHANGED raised
         ELSE /\ Raise(UnknownTaskError)
              /\ UNCHANGED task_cls
    /\ UNCHANGED <<opts, cuda_available, long_late_chunking_embed_size, model,
                   has_instructions, tokenizer, chunking_args, tasks,
                   evaluation, heap, calls, stdout>>

\* if truncate_max_length is not None and size > 0: size = 0; print(...)
DisableLongLateChunking ==
    /\ pc = "disable_long_late_chunking"
    /\ IF DisableCondition(opts.truncate_max_length, long_late_chunking_embed_size)
         THEN /\ long_late_chunking_embed_size' = 0
              /\ stdout' = Append(stdout, DisabledNotice)
         ELSE UNCHANGED <<long_late_chunking_embed_size, stdout>>
    /\ pc' = "assert_config"
    /\ UNCHANGED <<opts, cuda_available, task_cls, model, has_instructions,
                   tokenizer, chunking_args, tasks, evaluation, heap, calls,
                   raised>>

\* assert (size > 0 or truncate_max_length is not None), '...'
AssertConfig ==
    /\ pc = "assert_config"
    /\ IF ConfigOk(opts.truncate_max_length, long_late_chunking_embed_size)
         THEN /\ pc' = "load_model"
              /\ UNCHANGED raised
         ELSE Raise(ConfigError)
    /\ UNCHANGED <<opts, cuda_available, task_cls,
                   long_late_chunking_embed_size, model, has_instructions,
                   tokenizer, chunking_args, tasks, evaluation, heap, calls,
                   stdout>>

\* model, has_instructions = load_model(model_name)
LoadModel ==
    /\ pc = "load_model"
    /\ calls' = Append(calls, Call("load_model", <<opts.model_name>>, <<>>))
    /\ \/ \E hi \in BOOLEAN, mode \in {"train", "eval"} :
            /\ heap' = Append(heap, Obj("model", mode))
            /\ model' = Some(NewId)
            /\ has_instructions' = Some(hi)
            /\ pc' = "load_tokenizer"
            /\ UNCHANGED raised
       \/ /\ Raise("load_model failed")
          /\ UNCHANGED <<heap, model, has_instructions>>
    /\ UNCHANGED <<opts, cuda_available, task_cls,
                   long_late_chunking_embed_size, tokenizer, chunking_args,
                   tasks, evaluation, stdout>>

\* tokenizer = AutoTokenizer.from_pretrained(model_name, trust_remote_code=True)
LoadTokenizer ==
    /\ pc = "load_tokenizer"
    /\ calls' = Append(calls, Call("AutoTokenizer.from_pretrained",
                                   <<opts.model_name>>,
                                   [trust_remote_code |-> TRUE]))
    /\ \/ /\ heap' = Append(heap, Obj("tokenizer", "-"))
          /\ tokenizer' = Some(NewId)
          /\ pc' = "chunking_args"
          /\ UNCHANGED raised
       \/ /\ Raise("AutoTokenizer.from_pretrained failed")
          /\ UNCHANGED <<heap, tokenizer>>
    /\ UNCHANGED <<opts, cuda_available, task_cls,
                   long_late_chunking_embed_size, model, has_instructions,
                   chunking_args, tasks, evaluation, stdout>>

\* chunking_args = {...}
BuildChunkingArgs ==
    /\ pc = "chunking_args"
    /\ chunking_args' = ChunkingArgs(opts.chunk_size, opts.n_sentences,
                                     opts.strategy, has_instructions[1],
                                     opts.chunking_model, opts.model_name)
    /\ pc' = "cuda"
    /\ UNCHANGED <<opts, cuda_available, task_cls,
                   long_late_chunking_embed_size, model, has_instructions,
                   tokenizer, tasks, evaluation, heap, calls, stdout, raised>>

\* if torch.cuda.is_available(): model = model.cuda()
\* Module.cuda() moves the module in place and returns it
MoveToCuda ==
    /\ pc = "cuda"
    /\ IF cuda_available
         THEN /\ calls' = Append(calls, Call("model.cuda", <<model[1]>>, <<>>))
              /\ \/ /\ heap' = [heap EXCEPT ![model[1]].device = "cuda"]
                    /\ pc' = "eval_mode"
                    /\ UNCHANGED raised
                 \/ /\ Raise("model.cuda failed")
                    /\ UNCHANGED heap
         ELSE /\ pc' = "eval_mode"
              /\ UNCHANGED <<heap, calls, raised>>
    /\ UNCHANGED <<opts, cuda_available, task_cls,
                   long_late_chunking_embed_size, model, has_instructions,
                   tokenizer, chunking_args, tasks, evaluation, stdout>>

\* model.eval()
EvalMode ==
    /\ pc = "eval_mode"
    /\ calls' = Append(calls, Call("model.eval", <<model[1]>>, <<>>))
    /\ heap' = [heap EXCEPT ![model[1]].mode = "eval"]
    /\ pc' = "chunked_task"
    /\ UNCHANGED <<opts, cuda_available, task_cls,
                   long_late_chunking_embed_size, model, has_instructions,
                   tokenizer, chunking_args, tasks, evaluation, stdout, raised>>

\* tasks = [task_cls(chunked_pooling_enabled=True, ...)]
BuildChunkedTask ==
    /\ pc = "chunked_task"
    /\ IF task_cls[1] \in TaskClasses
         THEN /\ calls' = Append(calls, Call("task_cls", <<>>,
                    ChunkedTaskKwargs(tokenizer[1], opts.truncate_max_length,
                                      long_late_chunking_embed_size,
                                      opts.long_late_chunking_overlap_size,
                                      chunking_args)))
              /\ \/ /\ heap' = Append(heap, Obj(task_cls[1], "-"))
                    /\ tasks' = <<NewId>>
                    /\ pc' = "chunked_evaluation"
                    /\ UNCHANGED raised
                 \/ /\ Raise("task_cls failed")
                    /\ UNCHANGED <<heap, tasks>>
         ELSE /\ Raise(NotCallableError)
              /\ UNCHANGED <<heap, tasks, calls>>
    /\ UNCHANGED <<opts, cuda_available, task_cls,
                   long_late_chunking_embed_size, model, has_instructions,
                   tokenizer, chunking_args, evaluation, stdout>>

\* evaluation = MTEB(tasks=tasks, chunked_pooling_enabled=True, ...)
BuildChunkedEvaluation ==
    /\ pc = "chunked_evaluation"
    /\ calls' = Append(calls, Call("MTEB", <<>>,
                    ChunkedEvaluationKwargs(tasks, tokenizer[1], chunking_args)))
    /\ \/ /\ heap' = Append(heap, Obj("MTEB", "-"))
          /\ evaluation' = Some(NewId)
          /\ pc' = "chunked_run"
          /\ UNCHANGED raised
       \/ /\ Raise("MTEB failed")
          /\ UNCHANGED <<heap, evaluation>>
    /\ UNCHANGED <<opts, cuda_available, task_cls,
                   long_late_chunking_embed_size, model, has_instructions,
                   tokenizer, chunking_args, tasks, stdout>>

\* variant: a failure of the chunked-pooling run is swallowed and main goes on
RunChunked_swallowed ==
    /\ pc = "chunked_run"
    /\ calls' = Append(calls, Call("run", <<ChunkedRunModel(model[1])>>,
                                   ChunkedRunKwargs(opts.eval_split)))
    /\ \/ /\ pc' = "normal_task"
          /\ UNCHANGED raised
       \/ /\ pc' = "normal_task"
          /\ raised' = Some("run failed")
    /\ UNCHANGED <<opts, cuda_available, task_cls,
                   long_late_chunking_embed_size, model, has_instructions,
                   tokenizer, chunking_args, tasks, evaluation, heap, stdout>>

\* evaluation.run(model, output_folder='results-chunked-pooling', ...)
RunChunked ==
    /\ pc = "chunked_run"
    /\ calls' = Append(calls, Call("run", <<ChunkedRunModel(model[1])>>,
                                   ChunkedRunKwargs(opts.eval_split)))
    /\ \/ /\ pc' = "normal_task"
          /\ UNCHANGED raised
       \/ Raise("run failed")
    /\ UNCHANGED <<opts, cuda_available, task_cls,
                   long_late_chunking_embed_size, model, has_instructions,
                   tokenizer, chunking_args, tasks, evaluation, heap, stdout>>

\* tasks = [task_cls(chunked_pooling_enabled=False, ...)]
BuildNormalTask ==
    /\ pc = "normal_task"
    /\ calls' = Append(calls, Call("task_cls", <<>>,
                    NormalTaskKwargs(tokenizer[1], opts.truncate_max_length,
                                     chunking_args)))
    /\ \/ /\ heap' = Append(heap, Obj(task_cls[1], "-"))
          /\ tasks' = <<NewId>>
          /\ pc' = "normal_evaluation"
          /\ UNCHANGED raised
       \/ /\ Raise("task_cls failed")
          /\ UNCHANGED <<heap, tasks>>
    /\ UNCHANGED <<opts, cuda_available, task_cls,
                   long_late_chunking_embed_size, model, has_instructions,
                   tokenizer, chunking_args, evaluation, stdout>>

\* evaluation = MTEB(tasks=tasks, chunked_pooling_enabled=False, ...)
BuildNormalEvaluation ==
    /\ pc = "normal_evaluation"
    /\ calls' = Append(calls, Call("MTEB", <<>>,
                    NormalEvaluationKwargs(tasks, tokenizer[1], chunking_args)))
    /\ \/ /\ heap' = Append(heap, Obj("MTEB", "-"))
          /\ evaluation' = Some(NewId)
          /\ pc' = "normal_run"
          /\ UNCHANGED raised
       \/ /\ Raise("MTEB failed")
          /\ UNCHANGED <<heap, evaluation>>
    /\ UNCHANGED <<opts, cuda_available, task_cls,
                   long_late_chunking_embed_size, model, has_instructions,
                   tokenizer, chunking_args, tasks, stdout>>

\* evaluation.run(model, output_folder='results-normal-pooling', ...)
RunNormal ==
    /\ pc = "normal_run"
    /\ calls' = Append(calls, Call("run", <<NormalRunModel(model[1])>>,
                                   NormalRunKwargs(opts.eval_split)))
    /\ \/ /\ pc' = "done"
          /\ UNCHANGED raised
       \/ Raise("run failed")
    /\ UNCHANGED <<opts, cuda_available, task_cls,
                   long_late_chunking_embed_size, model, has_instructions,
                   tokenizer, chunking_args, tasks, evaluation, heap, stdout>>

Next ==
    \/ ResolveTask
    \/ DisableLongLateChunking
    \/ AssertConfig
    \/ LoadModel
    \/ LoadTokenizer
    \/ BuildChunkingArgs
    \/ MoveToCuda
    \/ EvalMode
    \/ BuildChunkedTask
    \/ BuildChunkedEvaluation
    \/ RunChunked
    \/ BuildNormalTask
    \/ BuildNormalEvaluation
    \/ RunNormal

Spec == Init /\ [][Next]_vars

(* ------------------------- reading the call log ------------------------ *)
CallIndex == 1..Len(calls)
TaskCalls == {i \in CallIndex : calls[i].fn = "task_cls"}
ChunkedTaskCalls == {i \in TaskCalls : calls[i].kwargs.chunked_pooling_enabled}
NormalTaskCalls == {i \in TaskCalls : ~calls[i].kwargs.chunked_pooling_enabled}
EvaluationCalls == {i \in CallIndex : calls[i].fn = "MTEB"}
ChunkedEvaluationCalls == {i \in EvaluationCalls : calls[i].kwargs.chunked_pooling_enabled}
NormalEvaluationCalls == {i \in EvaluationCalls : ~calls[i].kwargs.chunked_pooling_enabled}
RunCalls == {i \in CallIndex : calls[i].fn = "run"}
RunCallsTo(folder) == {i \in RunCalls : calls[i].kwargs.output_folder = folder}
LoadModelCalls == {i \in CallIndex : calls[i].fn = "load_model"}
LoadTokenizerCalls == {i \in CallIndex : calls[i].fn = "AutoTokenizer.from_pretrained"}

\* the two keyword-argument records agree on every key outside `except`,
\* and neither has a key outside `except` that the other lacks
SameExcept(a, b, except) ==
    /\ DOMAIN a \ except = DOMAIN b \ except
    /\ \A k \in (DOMAIN a \cap DOMAIN b) \ except : a[k] = b[k]

LongLateKeys == {"long_late_chunking_embed_size", "long_late_chunking_overlap_size"}

\* main has passed its validation and reached the model load
FromModelLoadOnward == pc = "load_model" \/ calls # <<>>

(* ------------------------------- claims -------------------------------- *)

\* C1: a task name that is not a known task class makes main raise the
\* unknown-task error at the lookup, before anything is loaded or run.
\* The lookup is in globals(), so a module-level name that is no task class
\* (BATCH_SIZE) passes it: this formula is violated.
C1_UnknownTaskRaisesFirst ==
    (opts.task_name \notin TaskClasses /\ pc # "resolve_task")
        => (pc = "raised" /\ raised = Some(UnknownTaskError) /\ calls = <<>>)

\* C2 as stated: whenever the truncation length is unset and the window size
\* is 0, main ends with the configuration error and nothing is loaded or run.
\* Violated by a task name globals() does not hold: the lookup raises first.
C2_ConfigErrorAnyTask ==
    (opts.truncate_max_length = None /\ opts.long_late_chunking_embed_size = 0)
        => /\ calls = <<>>
           /\ pc \in {"resolve_task", "disable_long_late_chunking",
                      "assert_config", "raised"}
           /\ (pc = "raised" => raised = Some(ConfigError))

\* C2 amended: when the task name resolves in the module namespace, the
\* truncation length is unset and the window size is 0, main never gets past
\* the assertion, the exception it raises is the configuration error, and no
\* external call (load_model, tokenizer load, task, MTEB, run) is made.
C2_ConfigErrorBeforeWork ==
    (/\ opts.task_name \in ModuleGlobals
     /\ opts.truncate_max_length = None
     /\ opts.long_late_chunking_embed_size = 0)
        => /\ calls = <<>>
           /\ heap = <<>>
           /\ pc \in {"resolve_task", "disable_long_late_chunking",
                      "assert_config", "raised"}
           /\ (pc = "raised" => raised = Some(ConfigError))

C2_Witness ==
    /\ opts.task_name \in ModuleGlobals
    /\ opts.truncate_max_length = None
    /\ opts.long_late_chunking_embed_size = 0
    /\ pc = "raised"
    /\ raised = Some(ConfigError)

\* C3: with the truncation length set and a positive window size supplied,
\* the window size handed to the task built for evaluation is 0, and so is
\* the local from the model load onward.
C3_WindowForcedToZero ==
    (opts.truncate_max_length # None /\ opts.long_late_chunking_embed_size > 0)
        => /\ \A i \in TaskCalls :
                "long_late_chunking_embed_size" \in DOMAIN calls[i].kwargs
                    => calls[i].kwargs.long_late_chunking_embed_size = 0
           /\ (FromModelLoadOnward => long_late_chunking_embed_size = 0)

C3_Witness ==
    /\ opts.truncate_max_length # None
    /\ opts.long_late_chunking_embed_size > 1
    /\ ChunkedTaskCalls # {}
    /\ DisabledNotice \in {stdout[i] : i \in 1..Len(stdout)}

\* C4: a run of main that exits normally (known task class, truncation set or
\* positive window, no failure) made exactly two evaluation runs, one into
\* 'results-chunked-pooling' and one into 'results-normal-pooling'; the two
\* folders are distinct and the same for every option value; no run of main
\* ever makes more than one run into either folder.
C4_ExactlyTwoRuns ==
    /\ ChunkedFolder # NormalFolder
    /\ \A i \in RunCalls : calls[i].kwargs.output_folder \in {ChunkedFolder, NormalFolder}
    /\ Cardinality(RunCallsTo(ChunkedFolder)) <= 1
    /\ Cardinality(RunCallsTo(NormalFolder)) <= 1
    /\ pc = "done" =>
          /\ opts.task_name \in TaskClasses
          /\ (opts.truncate_max_length # None \/ opts.long_late_chunking_embed_size > 0)
          /\ Cardinality(RunCalls) = 2
          /\ Cardinality(RunCallsTo(ChunkedFolder)) = 1
          /\ Cardinality(RunCallsTo(NormalFolder)) = 1

C4_Witness ==
    /\ pc = "done"
    /\ opts.truncate_max_length = None
    /\ opts.long_late_chunking_embed_size > 0
    /\ Cardinality(RunCalls) = 2

\* C5 as stated: the chunked-pooling and the normal-pooling invocations differ
\* only in the chunked-pooling flag (and the output folder, and the task list
\* each evaluation is built on): no other argument differs or is passed to
\* one and not the other. Violated: the two long-late-chunking sizes are
\* passed to the chunked-pooling task only.
C5_DifferOnlyInFlag ==
    /\ \A i \in ChunkedTaskCalls, j \in NormalTaskCalls :
          SameExcept(calls[i].kwargs, calls[j].kwargs, {"chunked_pooling_enabled"})
    /\ \A i \in ChunkedEvaluationCalls, j \in NormalEvaluationCalls :
          SameExcept(calls[i].kwargs, calls[j].kwargs,
                     {"chunked_pooling_enabled", "tasks"})
    /\ \A i \in RunCallsTo(ChunkedFolder), j \in RunCallsTo(NormalFolder) :
          /\ calls[i].args = calls[j].args
          /\ SameExcept(calls[i].kwargs, calls[j].kwargs, {"output_folder"})

\* C5 amended: the two invocations differ only in the chunked-pooling flag
\* and in the two long-late-chunking sizes (window and overlap), which the
\* chunked-pooling task is given and the normal-pooling task is not; every
\* other argument of the task, of the evaluation and of the run (the output
\* folder and the task list apart) is passed to both with the same value.
C5_DifferInFlagAndLongLate ==
    /\ \A i \in ChunkedTaskCalls, j \in NormalTaskCalls :
          /\ SameExcept(calls[i].kwargs, calls[j].kwargs,
                        {"chunked_pooling_enabled"} \cup LongLateKeys)
          /\ LongLateKeys \subseteq DOMAIN calls[i].kwargs
          /\ LongLateKeys \cap DOMAIN calls[j].kwargs = {}
    /\ \A i \in ChunkedEvaluationCalls, j \in NormalEvaluationCalls :
          SameExcept(calls[i].kwargs, calls[j].kwargs,
                     {"chunked_pooling_enabled", "tasks"})
    /\ \A i \in RunCallsTo(ChunkedFolder), j \in RunCallsTo(NormalFolder) :
          /\ calls[i].args = calls[j].args
          /\ SameExcept(calls[i].kwargs, calls[j].kwargs, {"output_folder"})

C5_Witness ==
    /\ pc = "done"
    /\ opts.truncate_max_length # None
    /\ ChunkedTaskCalls # {} /\ NormalTaskCalls # {}
    /\ ChunkedEvaluationCalls # {} /\ NormalEvaluationCalls # {}
    /\ RunCallsTo(ChunkedFolder) # {} /\ RunCallsTo(NormalFolder) # {}

\* C6: the model load, the tokenizer load and each of the two runs is
\* attempted at most once; an exception always ends main (it is never set
\* while main goes on), and the failed call is the last call made: after a
\* failed chunked-pooling run there is no normal-pooling task, evaluation or
\* run.
C6_NoRetryNoRecovery ==
    /\ Cardinality(LoadModelCalls) <= 1
    /\ Cardinality(LoadTokenizerCalls) <= 1
    /\ Cardinality(RunCallsTo(ChunkedFolder)) <= 1
    /\ Cardinality(RunCallsTo(NormalFolder)) <= 1
    /\ (raised # None <=> pc = "raised")
    /\ (raised = Some("load_model failed") =>
            calls[Len(calls)].fn = "load_model")
    /\ (raised = Some("AutoTokenizer.from_pretrained failed") =>
            calls[Len(calls)].fn = "AutoTokenizer.from_pretrained")
    /\ (raised = Some("run failed") => calls[Len(calls)].fn = "run")
    /\ ((raised = Some("run failed") /\ RunCallsTo(NormalFolder) = {}) =>
            NormalTaskCalls = {} /\ NormalEvaluationCalls = {})

C6_Witness ==
    /\ pc = "raised"
    /\ raised = Some("run failed")
    /\ RunCallsTo(ChunkedFolder) # {}
    /\ RunCallsTo(NormalFolder) = {}

\* C7: from the model load onward exactly one of "the truncation length is
\* defined" and "the effective window size is > 0" holds, for every supplied
\* truncation length and window size (negative ones included).
C7_MutuallyExclusive ==
    FromModelLoadOnward =>
        ((opts.truncate_max_length # None) # (long_late_chunking_embed_size > 0))

C7_Witness ==
    /\ pc = "chunked_run"
    /\ opts.truncate_max_length # None
    /\ opts.long_late_chunking_embed_size > 0
    /\ long_late_chunking_embed_size = 0

\* C8: load_model is called at most once and exactly once in a run that
\* exits normally, before every evaluation run; every run is handed the
\* object load_model returned, which by then is in eval mode and on the
\* accelerator when there is one; every task and evaluation is handed the
\* one tokenizer the tokenizer load returned.
C8_OneModelOneTokenizer ==
    /\ Cardinality(LoadModelCalls) <= 1
    /\ (pc = "done" => Cardinality(LoadModelCalls) = 1)
    /\ \A r \in RunCalls :
          /\ \E l \in LoadModelCalls : l < r
          /\ model # None
          /\ calls[r].args = <<model[1]>>
          /\ heap[model[1]].cls = "model"
          /\ heap[model[1]].mode = "eval"
          /\ heap[model[1]].device = (IF cuda_available THEN "cuda" ELSE "cpu")
    /\ \A c \in TaskCalls \cup EvaluationCalls :
          /\ tokenizer # None
          /\ calls[c].kwargs.tokenizer = tokenizer[1]
          /\ heap[tokenizer[1]].cls = "tokenizer"

C8_Witness ==
    /\ pc = "done"
    /\ cuda_available
    /\ Cardinality(RunCalls) = 2
    /\ \A r \in RunCalls : calls[r].args = <<model[1]>>

\* C9: with the truncation length unset and a positive window size, the
\* chunked-pooling task is handed the supplied window size; and every task
\* is handed the supplied truncation length, chunk size, sentence count and
\* strategy, the chunked-pooling task the supplied overlap size too.
C9_OptionsPassedUnchanged ==
    /\ (opts.truncate_max_length = None /\ opts.long_late_chunking_embed_size > 0)
          => \A i \in ChunkedTaskCalls :
                calls[i].kwargs.long_late_chunking_embed_size
                    = opts.long_late_chunking_embed_size
    /\ \A i \in TaskCalls :
          /\ calls[i].kwargs.truncate_max_length = opts.truncate_max_length
          /\ calls[i].kwargs.chunk_size = opts.chunk_size
          /\ calls[i].kwargs.n_sentences = opts.n_sentences
          /\ calls[i].kwargs.chunking_strategy = opts.strategy
    /\ \A i \in ChunkedTaskCalls :
          calls[i].kwargs.long_late_chunking_overlap_size
              = opts.long_late_chunking_overlap_size

C9_Witness ==
    /\ opts.truncate_max_length = None
    /\ opts.long_late_chunking_embed_size > 1
    /\ opts.long_late_chunking_overlap_size = 0
    /\ ChunkedTaskCalls # {} /\ NormalTaskCalls # {}

\* C10: the embedding model name handed to every task and evaluation is the
\* chunking-model option when that is given and not empty, and the model
\* name when it is not given or is the empty string.
C10_EmbeddingModelName ==
    \A i \in TaskCalls \cup EvaluationCalls :
        calls[i].kwargs.embedding_model_name =
            (CASE opts.chunking_model = None -> opts.model_name
               [] opts.chunking_model = Some("") -> opts.model_name
               [] OTHER -> opts.chunking_model[1])

C10_Witness ==
    /\ pc = "done"
    /\ opts.chunking_model = Some("")
    /\ \A i \in TaskCalls \cup EvaluationCalls :
          calls[i].kwargs.embedding_model_name = opts.model_name

====
